---------------------------- MODULE Spec2Model ----------------------------
(***************************************************************************)
(* Model of the LangGraph search agent (src/main.py) and of the Django     *)
(* gateway that runs it in a worker thread (src/frontend/mainapp/views.py).*)
(*                                                                         *)
(* One request r owns a gateway thread gw[r] (run_script) and a worker     *)
(* thread wf[r] (chatbot_response).  The language model and the search     *)
(* provider are external: a call is dispatched in one step and returns or  *)
(* raises in a later one, or never.  log[r] records, in order, every       *)
(* dispatch to an external component and what came back.                   *)
(***************************************************************************)
EXTENDS Naturals, Sequences, FiniteSets, TLC

VARIABLES main, gw, wf, log

vars == <<main, gw, wf, log>>

---------------------------------------------------------------------------
(* Scope of the model *)

Runs == {"r1", "r2"}

\* the requests a specification lets arrive
SingleRun == {"r1"}

Methods == {"POST", "GET"}

UserInputs == {"", "2+2?"}

SearchQueries == {"", "news"}

ErrMsgs == {"boom", "quota"}

Answers == {"four", "It is 4."}

Hits == {"h"}

\* search = TavilySearch(max_results=2)
MaxResults == 2

---------------------------------------------------------------------------
(* Values *)

HumanMessage(c) == [type |-> "HumanMessage", content |-> c]

AIMessage(c) == [type |-> "AIMessage", content |-> c]

SystemMessage(c) == [type |-> "SystemMessage", content |-> c]

\* a value the model call may hand back that is not an AIMessage
ChatMessage(c) == [type |-> "ChatMessage", content |-> c]

classification_prompt ==
    SystemMessage("\n        Determine if this query needs web search for current/real-time information.\n        \n        Search needed for: current events, real-time data, recent updates, \"latest\" queries\n        No search for: general knowledge, historical facts, explanations, how-to questions\n    ")

\* a or b on Python strings
PyOr(a, b) == IF a /= "" THEN a ELSE b

StartsWith(s, p) == Len(s) >= Len(p) /\ SubSeq(s, 1, Len(p)) = p

Contains(s, p) ==
    \E i \in 1..(Len(s) + 1) :
        i + Len(p) - 1 <= Len(s) /\ SubSeq(s, i, i + Len(p) - 1) = p

\* what the search tool may return: a dict carrying at most MaxResults hits
SearchResults ==
    {[results |-> h] : h \in UNION {[1..n -> Hits] : n \in 0..MaxResults}}

RECURSIVE JoinRepr(_)
JoinRepr(hs) ==
    IF hs = <<>> THEN ""
    ELSE IF Len(hs) = 1 THEN "'" \o hs[1] \o "'"
    ELSE "'" \o hs[1] \o "', " \o JoinRepr(Tail(hs))

\* str(results)
PyStr(res) == "{'results': [" \o JoinRepr(res.results) \o "]}"

\* what model.with_structured_output(SearchClassification) may return
SearchClassification ==
    [needs_search : BOOLEAN, search_query : SearchQueries]

\* AIMessage.content is a str or a list of content blocks.  A list is written
\* here by its repr, and no text in Answers is spelled like one: [] is the
\* content of a reply that carries no block at all
BlockContents == {"[]"}

IsText(c) == c \notin BlockContents

\* what model.invoke may return
ModelResponses ==
    {AIMessage(a) : a \in Answers \cup BlockContents} \cup {ChatMessage("raw")}

---------------------------------------------------------------------------
(* Pure parts of the workflow *)

\* an initial state that is not built empty
InitialState_StaleResults(user_input) ==
    [messages |-> <<HumanMessage(user_input)>>,
     search_results |-> "None",
     needs_search |-> FALSE,
     search_query |-> ""]

InitialState(user_input) ==
    [messages |-> <<HumanMessage(user_input)>>,
     search_results |-> "",
     needs_search |-> FALSE,
     search_query |-> ""]

\* classify_search_need without the fallback to the user's text
ClassifyUpdate_NoFallback(state, classification) ==
    [needs_search |-> classification.needs_search,
     search_query |-> classification.search_query]

\* the update classify_search_need returns
ClassifyUpdate(state, classification) ==
    LET user_query == state.messages[Len(state.messages)].content
    IN  [needs_search |-> classification.needs_search,
         search_query |-> PyOr(classification.search_query, user_query)]

\* a router that ignores the classification
route_decision_AlwaysSearch(state) == "search"

route_decision(state) == IF state.needs_search THEN "search" ELSE "respond"

SearchOk(results) == PyStr(results)

SearchError(e) == "Search error: " \o e

ContextMessage(search_results) ==
    SystemMessage("SEARCH RESULTS:\n" \o search_results
                  \o "\n\nUse these facts to answer the user's question.")

\* respond appending the context instead of inserting it at index 0
RespondMessages_ContextLast(state) ==
    IF state.search_results /= ""
    THEN state.messages \o <<ContextMessage(state.search_results)>>
    ELSE state.messages

\* the message list respond hands to model.invoke
RespondMessages(state) ==
    IF state.search_results /= ""
    THEN <<ContextMessage(state.search_results)>> \o state.messages
    ELSE state.messages

\* a respond that returns a whole state with the flags back at their defaults
RespondUpdate_ResetsFlags(state, response) ==
    [state EXCEPT !.messages = <<response>>,
                  !.needs_search = FALSE,
                  !.search_query = ""]

\* a respond that inserts the context into the state's own list
RespondUpdate_PersistsContext(state, response) ==
    [state EXCEPT !.messages =
        IF state.search_results /= ""
        THEN <<SystemMessage("SEARCH RESULTS:\n" \o state.search_results
                  \o "\n\nUse these facts to answer the user's question."),
               response>>
        ELSE <<response>>]

\* the update respond returns, merged into a state without reducers
RespondUpdate(state, response) == [state EXCEPT !.messages = <<response>>]

\* the error string without its cause
ErrorString_NoCause(e) == "An error occurred: "

ErrorString(e) == "An error occurred: " \o e

\* the isinstance test inverted
FinalText_Inverted(result) ==
    LET final_message == result.messages[Len(result.messages)]
    IN  IF final_message.type /= "AIMessage"
        THEN final_message.content
        ELSE "AI: No response generated."

FinalText(result) ==
    LET final_message == result.messages[Len(result.messages)]
    IN  IF final_message.type = "AIMessage"
        THEN final_message.content
        ELSE "AI: No response generated."

---------------------------------------------------------------------------
(* State *)

NoState == InitialState("")

NoOutcome == [kind |-> "none", value |-> ""]

Returned(s) == [kind |-> "returned", value |-> s]

Raised(e) == [kind |-> "raised", value |-> e]

WfIdle == [pc |-> "off", user_input |-> "", state |-> NoState,
           outcome |-> NoOutcome]

GwIdle == [pc |-> "idle", method |-> "", message |-> "", status |-> 0,
           key |-> "", text |-> ""]

Event(kind, comp, val) == [kind |-> kind, comp |-> comp, val |-> val]

WorkerDone(r) == wf[r].outcome.kind /= "none"

Init ==
    /\ main \in {"None", "loaded"}
    /\ gw = [r \in Runs |-> GwIdle]
    /\ wf = [r \in Runs |-> WfIdle]
    /\ log = [r \in Runs |-> <<>>]

---------------------------------------------------------------------------
(* Gateway: run_script, one thread per request *)

\* a request arrives at the view
Request(r) ==
    /\ gw[r].pc = "idle"
    /\ \E m \in Methods, msg \in UserInputs :
          gw' = [gw EXCEPT ![r] = [GwIdle EXCEPT !.pc = "method",
                                                  !.method = m,
                                                  !.message = msg]]
    /\ UNCHANGED <<main, wf, log>>

Respond(g, status, key, text) ==
    [g EXCEPT !.pc = "sent", !.status = status, !.key = key, !.text = text]

\* if request.method != "POST": return 400
MethodCheck(r) ==
    /\ gw[r].pc = "method"
    /\ gw' = [gw EXCEPT ![r] =
                IF gw[r].method /= "POST"
                THEN Respond(gw[r], 400, "error", "POST request required.")
                ELSE [gw[r] EXCEPT !.pc = "import"]]
    /\ UNCHANGED <<main, wf, log>>

\* main is already loaded, or the lazy import succeeds
EnsureMainOk(r) ==
    /\ gw[r].pc = "import"
    /\ main' = "loaded"
    /\ gw' = [gw EXCEPT ![r].pc = "submit"]
    /\ UNCHANGED <<wf, log>>

\* main is None and the lazy import raises
EnsureMainFail(r) ==
    /\ gw[r].pc = "import"
    /\ main = "None"
    /\ \E e \in ErrMsgs :
          gw' = [gw EXCEPT ![r] =
                    Respond(gw[r], 500, "error", "Server import error: " \o e)]
    /\ UNCHANGED <<main, wf, log>>

\* executor.submit(main.chatbot_response, user_input)
Submit(r) ==
    /\ gw[r].pc = "submit"
    /\ gw' = [gw EXCEPT ![r].pc = "result"]
    /\ wf' = [wf EXCEPT ![r] = [WfIdle EXCEPT !.pc = "create_app",
                                              !.user_input = gw[r].message]]
    /\ UNCHANGED <<main, log>>

Prepare(g, status, key, text) ==
    [g EXCEPT !.pc = "shutdown", !.status = status, !.key = key, !.text = text]

\* future.result returns the worker's value: a str has no .content
FutureResult(r) ==
    /\ gw[r].pc = "result"
    /\ wf[r].outcome.kind = "returned"
    /\ gw' = [gw EXCEPT ![r] = Prepare(gw[r], 200, "output", wf[r].outcome.value)]
    /\ UNCHANGED <<main, wf, log>>

\* the worker's exception sent out as if it were an answer
FutureException_AsOutput(r) ==
    /\ gw[r].pc = "result"
    /\ wf[r].outcome.kind = "raised"
    /\ gw' = [gw EXCEPT ![r] =
                Prepare(gw[r], 200, "output", "Server error: " \o wf[r].outcome.value)]
    /\ UNCHANGED <<main, wf, log>>

\* future.result re-raises what the worker raised
FutureException(r) ==
    /\ gw[r].pc = "result"
    /\ wf[r].outcome.kind = "raised"
    /\ gw' = [gw EXCEPT ![r] =
                Prepare(gw[r], 500, "error", "Server error: " \o wf[r].outcome.value)]
    /\ UNCHANGED <<main, wf, log>>

\* the wait on the future expires; cancelling a running future does nothing
FutureTimeout(r) ==
    /\ gw[r].pc = "result"
    /\ ~WorkerDone(r)
    /\ gw' = [gw EXCEPT ![r] =
                Prepare(gw[r], 504, "error",
                        "Processing timeout. Try again or simplify the query.")]
    /\ UNCHANGED <<main, wf, log>>

\* can the with block be left: shutdown(wait=True) joins the worker thread
ShutdownReady(r) == WorkerDone(r)

\* leaving the with block, then the response goes out
ExecutorShutdown(r) ==
    /\ gw[r].pc = "shutdown"
    /\ ShutdownReady(r)
    /\ gw' = [gw EXCEPT ![r].pc = "sent"]
    /\ UNCHANGED <<main, wf, log>>

---------------------------------------------------------------------------
(* Worker: chatbot_response *)

Emit(r, kind, comp, val) == log' = [log EXCEPT ![r] = Append(@, Event(kind, comp, val))]

\* a chatbot_response that keeps its state in one module-level dict
CreateApp_SharedState(r) ==
    /\ wf[r].pc = "create_app"
    /\ LET busy == {q \in Runs \ {r} : wf[q].pc \notin {"off", "create_app"}}
       IN  wf' = [wf EXCEPT ![r].pc = "classify",
                            ![r].state = IF busy /= {}
                                         THEN wf[CHOOSE q \in busy : TRUE].state
                                         ELSE InitialState(wf[r].user_input)]
    /\ UNCHANGED <<main, gw, log>>

\* app = create_app(); initial_state = {...}
CreateApp(r) ==
    /\ wf[r].pc = "create_app"
    /\ wf' = [wf EXCEPT ![r].pc = "classify",
                        ![r].state = InitialState(wf[r].user_input)]
    /\ UNCHANGED <<main, gw, log>>

\* where an exception raised by create_app() goes: the call is before the try
CreateAppFailure(w, e) == [w EXCEPT !.pc = "done", !.outcome = Raised(e)]

CreateAppRaise(r) ==
    /\ wf[r].pc = "create_app"
    /\ \E e \in ErrMsgs : wf' = [wf EXCEPT ![r] = CreateAppFailure(wf[r], e)]
    /\ UNCHANGED <<main, gw, log>>

\* a handler that raises again instead of returning the error string
Caught_Reraise(w, e) == [w EXCEPT !.pc = "done", !.outcome = Raised(e)]

\* a handler that starts the run over instead of returning
Caught_StartOver(w, e) == [w EXCEPT !.pc = "classify"]

\* except Exception as e: return f"An error occurred: {e}"
Caught(w, e) == [w EXCEPT !.pc = "done", !.outcome = Returned(ErrorString(e))]

\* classifier.invoke([classification_prompt, HumanMessage(content=user_query)])
ClassifyCall(r) ==
    /\ wf[r].pc = "classify"
    /\ LET st == wf[r].state
           user_query == st.messages[Len(st.messages)].content
       IN  Emit(r, "call", "classifier",
                <<classification_prompt, HumanMessage(user_query)>>)
    /\ wf' = [wf EXCEPT ![r].pc = "classify_wait"]
    /\ UNCHANGED <<main, gw>>

\* a graph whose classify node is wired straight to respond
AfterClassify_SkipSearch(state) == "respond"

\* where the graph goes after classify has merged its update
AfterClassify(state) == route_decision(state)

ClassifyReturn(r) ==
    /\ wf[r].pc = "classify_wait"
    /\ \E c \in SearchClassification :
          LET upd == ClassifyUpdate(wf[r].state, c)
              st  == [wf[r].state EXCEPT !.needs_search = upd.needs_search,
                                         !.search_query = upd.search_query]
          IN  /\ wf' = [wf EXCEPT ![r].state = st, ![r].pc = AfterClassify(st)]
              /\ Emit(r, "return", "classifier", c)
    /\ UNCHANGED <<main, gw>>

\* a classify node that swallows the failure and answers without search
ClassifyFailure_Swallowed(w, e) == [w EXCEPT !.pc = "respond"]

\* classify_search_need has no handler: the exception leaves app.invoke
ClassifyFailure(w, e) == Caught(w, e)

ClassifyRaise(r) ==
    /\ wf[r].pc = "classify_wait"
    /\ \E e \in ErrMsgs :
          /\ wf' = [wf EXCEPT ![r] = ClassifyFailure(wf[r], e)]
          /\ Emit(r, "raise", "classifier", e)
    /\ UNCHANGED <<main, gw>>

\* the query search_web hands to search.invoke
SearchArg(state) == state.search_query

SearchCall(r) ==
    /\ wf[r].pc = "search"
    /\ Emit(r, "call", "search", SearchArg(wf[r].state))
    /\ wf' = [wf EXCEPT ![r].pc = "search_wait"]
    /\ UNCHANGED <<main, gw>>

SearchReturn(r) ==
    /\ wf[r].pc = "search_wait"
    /\ \E res \in SearchResults :
          /\ wf' = [wf EXCEPT ![r].state.search_results = SearchOk(res),
                              ![r].pc = "respond"]
          /\ Emit(r, "return", "search", res)
    /\ UNCHANGED <<main, gw>>

\* a search_web that runs the search again when it fails
SearchFailure_Retry(w, e) == [w EXCEPT !.pc = "search"]

\* search_web without its try/except: the exception leaves app.invoke
SearchFailure_Propagates(w, e) == Caught(w, e)

\* where search_web goes when search.invoke raises e
SearchFailure(w, e) ==
    [w EXCEPT !.state.search_results = SearchError(e), !.pc = "respond"]

SearchRaise(r) ==
    /\ wf[r].pc = "search_wait"
    /\ \E e \in ErrMsgs :
          /\ wf' = [wf EXCEPT ![r] = SearchFailure(wf[r], e)]
          /\ Emit(r, "raise", "search", e)
    /\ UNCHANGED <<main, gw>>

\* response = model.invoke(messages)
RespondCall(r) ==
    /\ wf[r].pc = "respond"
    /\ Emit(r, "call", "responder", RespondMessages(wf[r].state))
    /\ wf' = [wf EXCEPT ![r].pc = "respond_wait"]
    /\ UNCHANGED <<main, gw>>

RespondReturn(r) ==
    /\ wf[r].pc = "respond_wait"
    /\ \E resp \in ModelResponses :
          /\ wf' = [wf EXCEPT ![r].state = RespondUpdate(wf[r].state, resp),
                              ![r].pc = "end"]
          /\ Emit(r, "return", "responder", resp)
    /\ UNCHANGED <<main, gw>>

RespondRaise(r) ==
    /\ wf[r].pc = "respond_wait"
    /\ \E e \in ErrMsgs :
          /\ wf' = [wf EXCEPT ![r] = Caught(wf[r], e)]
          /\ Emit(r, "raise", "responder", e)
    /\ UNCHANGED <<main, gw>>

\* result = app.invoke(...) has reached END: read the final message
Finish(r) ==
    /\ wf[r].pc = "end"
    /\ wf' = [wf EXCEPT ![r].pc = "done",
                        ![r].outcome = Returned(FinalText(wf[r].state))]
    /\ UNCHANGED <<main, gw, log>>

---------------------------------------------------------------------------
(* Specifications *)

GatewayStep(r) ==
    \/ Request(r)
    \/ MethodCheck(r)
    \/ EnsureMainOk(r)
    \/ EnsureMainFail(r)
    \/ Submit(r)
    \/ FutureResult(r)
    \/ FutureException(r)
    \/ FutureTimeout(r)
    \/ ExecutorShutdown(r)

\* steps of the worker that are the program's own
WorkerStep(r) ==
    \/ CreateApp(r)
    \/ CreateAppRaise(r)
    \/ ClassifyCall(r)
    \/ SearchCall(r)
    \/ RespondCall(r)
    \/ Finish(r)

\* steps in which an external call comes back
ExternalStep(r) ==
    \/ ClassifyReturn(r)
    \/ ClassifyRaise(r)
    \/ SearchReturn(r)
    \/ SearchRaise(r)
    \/ RespondReturn(r)
    \/ RespondRaise(r)

Step(r) == GatewayStep(r) \/ WorkerStep(r) \/ ExternalStep(r)

Next == \E r \in SingleRun : Step(r)

Spec == Init /\ [][Next]_vars

\* the worker thread keeps running, and every dispatched call comes back
Fairness ==
    \A r \in SingleRun : WF_vars(WorkerStep(r)) /\ WF_vars(ExternalStep(r))

FairSpec == Spec /\ Fairness

\* requests served at the same time, each on its own gateway and worker thread
NextConc == \E r \in Runs : Step(r)

SpecConc == Init /\ [][NextConc]_vars

---------------------------------------------------------------------------
(* Reading the log *)

Idx(r) == 1..Len(log[r])

Is(ev, kind, comp) == ev.kind = kind /\ ev.comp = comp

Happened(r, kind, comp) == \E i \in Idx(r) : Is(log[r][i], kind, comp)

\* the text the user sent with request r
UserText(r) == gw[r].message

---------------------------------------------------------------------------
(* C1: chatbot_response returns a string to its caller and never lets an
   exception escape, whatever graph construction, the classifier, the
   search provider and the responder do. *)
C1_NeverRaises ==
    \A r \in Runs :
        /\ wf[r].outcome.kind /= "raised"
        /\ wf[r].pc = "done" => wf[r].outcome.kind = "returned"

(* C2: if the classifier call or the responder call raises with message m,
   chatbot_response does not raise and returns exactly
   "An error occurred: " followed by m. *)
C2_ModelFailureEncoded ==
    \A r \in Runs : \A i \in Idx(r) :
        (Is(log[r][i], "raise", "classifier") \/ Is(log[r][i], "raise", "responder"))
        => /\ wf[r].pc = "done"
           /\ wf[r].outcome.kind = "returned"
           /\ wf[r].outcome.value = "An error occurred: " \o log[r][i].val

C2_Witness ==
    \E r \in Runs :
        /\ Happened(r, "raise", "responder")
        /\ Happened(r, "return", "search")
        /\ wf[r].outcome = [kind |-> "returned", value |-> "An error occurred: quota"]

(* C3: when the classifier asks for a search and the search provider raises
   with message m, search_results becomes "Search error: " followed by m,
   no exception leaves search_web, respond still runs with a context
   message holding that text placed first, and when the responder answers
   chatbot_response returns that answer and not an "An error occurred:"
   string. *)
C3_SearchFailureContained ==
    \A r \in Runs : \A i \in Idx(r) :
        Is(log[r][i], "raise", "search")
        => LET m  == log[r][i].val
               sr == "Search error: " \o m
           IN  /\ Is(log[r][1], "call", "classifier")
               /\ Is(log[r][2], "return", "classifier")
               /\ log[r][2].val.needs_search
               /\ wf[r].state.search_results = sr
               /\ wf[r].outcome.kind /= "raised"
               /\ \/ wf[r].pc = "respond" /\ Len(log[r]) = i
                  \/ /\ Len(log[r]) > i
                     /\ Is(log[r][i + 1], "call", "responder")
                     /\ Len(log[r][i + 1].val) = 2
                     /\ log[r][i + 1].val[1].type = "SystemMessage"
                     /\ Contains(log[r][i + 1].val[1].content, sr)
                     /\ log[r][i + 1].val[2] = HumanMessage(UserText(r))
               /\ \A j \in Idx(r) :
                     (Is(log[r][j], "return", "responder")
                          /\ log[r][j].val.type = "AIMessage"
                          /\ wf[r].pc = "done")
                     => /\ wf[r].outcome = Returned(log[r][j].val.content)
                        /\ ~StartsWith(wf[r].outcome.value, "An error occurred:")

C3_Witness ==
    \E r \in Runs :
        /\ Happened(r, "raise", "search")
        /\ wf[r].state.search_results = "Search error: boom"
        /\ Happened(r, "return", "responder")
        /\ wf[r].outcome = Returned("four")

(* C4: in a run where the classifier returns needs_search=false the search
   provider is never invoked; classify is followed directly by respond. *)
C4_NoSearchWhenNotNeeded ==
    \A r \in Runs : \A i \in Idx(r) :
        (Is(log[r][i], "return", "classifier") /\ ~log[r][i].val.needs_search)
        => /\ ~Happened(r, "call", "search")
           /\ \/ wf[r].pc = "respond" /\ Len(log[r]) = i
              \/ Len(log[r]) > i /\ Is(log[r][i + 1], "call", "responder")

C4_Witness ==
    \E r \in Runs :
        /\ \E i \in Idx(r) :
              Is(log[r][i], "return", "classifier") /\ ~log[r][i].val.needs_search
        /\ Happened(r, "return", "responder")
        /\ wf[r].pc = "done"

(* C5: the query the search provider receives is the classifier's
   search_query when that is non-empty and otherwise the user's text,
   unchanged. *)
C5_SearchQueryFallback ==
    \A r \in Runs : \A i \in Idx(r) :
        Is(log[r][i], "call", "search")
        => /\ i = 3
           /\ Is(log[r][2], "return", "classifier")
           /\ LET sq == log[r][2].val.search_query
              IN  log[r][i].val = IF sq /= "" THEN sq ELSE UserText(r)

C5_Witness ==
    \E r \in Runs :
        /\ UserText(r) = "2+2?"
        /\ Len(log[r]) >= 3
        /\ Is(log[r][2], "return", "classifier")
        /\ log[r][2].val = [needs_search |-> TRUE, search_query |-> ""]
        /\ log[r][3] = Event("call", "search", "2+2?")

(* C6: the responder hands the model the single user message when
   search_results is empty, which is always so when needs_search is false,
   and otherwise a system message holding the search_results text followed
   by the user message. *)
C6_ResponderMessages ==
    \A r \in Runs : \A i \in Idx(r) :
        Is(log[r][i], "call", "responder")
        => LET sr   == wf[r].state.search_results
               msgs == log[r][i].val
           IN  /\ ~log[r][2].val.needs_search => sr = ""
               /\ sr = "" => msgs = <<HumanMessage(UserText(r))>>
               /\ sr /= "" => /\ Len(msgs) = 2
                              /\ msgs[1].type = "SystemMessage"
                              /\ Contains(msgs[1].content, sr)
                              /\ msgs[2] = HumanMessage(UserText(r))

C6_Witness ==
    \E r \in Runs : \E i \in Idx(r) :
        /\ Is(log[r][i], "call", "responder")
        /\ wf[r].state.search_results = "{'results': ['h', 'h']}"
        /\ Len(log[r][i].val) = 2
        /\ Contains(log[r][i].val[1].content, "{'results': ['h', 'h']}")

(* C7: when the workflow call has not finished by the timeout, run_script
   reports status 504 without waiting for the worker: the response can go
   out even if the dispatched model or search call never returns. *)
C7_TimeoutNotBlocked ==
    \A r \in Runs :
        (gw[r].pc = "shutdown" /\ gw[r].status = 504)
        => ENABLED ExecutorShutdown(r)

(* C8: run_script maps a request to one outcome: not a POST, 400 and the
   workflow is not invoked; a POST whose workflow call returns in time, 200
   with the answer as output; a POST whose workflow call times out, 504
   with an error; a POST whose workflow call or module import raises, 500
   with an error. *)
C8_Sent ==
    \A r \in Runs :
        gw[r].pc = "sent"
        => /\ gw[r].status \in {200, 400, 500, 504}
           /\ gw[r].status = 400 <=> gw[r].method /= "POST"
           /\ gw[r].method /= "POST" => wf[r].pc = "off" /\ log[r] = <<>>
           /\ gw[r].status = 200 <=> gw[r].key = "output"
           /\ gw[r].status /= 200 <=> gw[r].key = "error"
           /\ gw[r].status = 200 => /\ wf[r].outcome.kind = "returned"
                                    /\ gw[r].text = wf[r].outcome.value

C8_Mapping ==
    \A r \in Runs :
        /\ (gw[r].pc = "result" /\ gw'[r].pc /= "result")
           => /\ gw'[r].pc = "shutdown"
              /\ wf[r].outcome.kind = "returned"
                    => gw'[r].status = 200 /\ gw'[r].text = wf[r].outcome.value
              /\ wf[r].outcome.kind = "none" => gw'[r].status = 504
              /\ wf[r].outcome.kind = "raised" => gw'[r].status = 500
        /\ (gw[r].pc = "import" /\ gw'[r].pc = "sent")
           => gw'[r].status = 500 /\ wf[r].pc = "off"
        /\ (gw[r].pc = "shutdown" /\ gw'[r].pc /= "shutdown")
           => /\ gw'[r].pc = "sent"
              /\ gw'[r].status = gw[r].status
              /\ gw'[r].key = gw[r].key
              /\ gw'[r].text = gw[r].text
        /\ gw[r].pc = "sent" => gw'[r] = gw[r]

C8_OneOutcome == []C8_Sent /\ [][C8_Mapping]_vars

C8_Witness ==
    \E r \in Runs :
        /\ gw[r].pc = "sent"
        /\ gw[r].status = 500
        /\ wf[r].outcome.kind = "raised"

(* C9: when the classifier and the responder both succeed, chatbot_response
   returns exactly the content of the AI message the responder's model call
   produced, with or without a search step in between. *)
C9_ReturnsResponderText ==
    \A r \in Runs : \A i \in Idx(r) :
        (Is(log[r][i], "return", "responder") /\ log[r][i].val.type = "AIMessage")
        => /\ Happened(r, "return", "classifier")
           /\ wf[r].pc \in {"end", "done"}
           /\ wf[r].pc = "done" => wf[r].outcome = Returned(log[r][i].val.content)

C9_Witness ==
    \E r \in Runs :
        /\ Happened(r, "return", "search")
        /\ log[r][Len(log[r])] = Event("return", "responder", AIMessage("It is 4."))
        /\ wf[r].outcome = Returned("It is 4.")

(* C10: when the classifier call raises, neither the search provider nor
   the responder is invoked afterwards and the run ends with the error
   string. *)
C10_ClassifierFailureStops ==
    \A r \in Runs : \A i \in Idx(r) :
        Is(log[r][i], "raise", "classifier")
        => /\ Len(log[r]) = i
           /\ ~Happened(r, "call", "search")
           /\ ~Happened(r, "call", "responder")
           /\ wf[r].pc = "done"
           /\ wf[r].outcome = Returned("An error occurred: " \o log[r][i].val)

C10_Witness ==
    \E r \in Runs :
        /\ Happened(r, "raise", "classifier")
        /\ gw[r].pc = "sent"
        /\ gw[r].text = "An error occurred: boom"

(* C11: a run follows the order classify, then search exactly when
   needs_search is true, then respond, then END: classify is the first
   component invoked, respond is invoked only after classify has returned
   and, when search runs, after search has returned or raised, and nothing
   is invoked after respond. *)
C11_FixedOrder ==
    \A r \in Runs :
        /\ Len(log[r]) >= 1 => Is(log[r][1], "call", "classifier")
        /\ \A i \in Idx(r) :
              /\ Is(log[r][i], "call", "classifier") => i = 1
              /\ Is(log[r][i], "return", "classifier")
                    => /\ i = 2
                       /\ IF Len(log[r]) = i
                          THEN wf[r].pc = (IF log[r][i].val.needs_search
                                           THEN "search" ELSE "respond")
                          ELSE Is(log[r][i + 1], "call",
                                  IF log[r][i].val.needs_search
                                  THEN "search" ELSE "responder")
              /\ Is(log[r][i], "call", "search")
                    => /\ Is(log[r][i - 1], "return", "classifier")
                       /\ log[r][i - 1].val.needs_search
              /\ Is(log[r][i], "call", "responder")
                    => /\ i > 1
                       /\ \/ /\ Is(log[r][i - 1], "return", "classifier")
                             /\ ~log[r][i - 1].val.needs_search
                          \/ Is(log[r][i - 1], "return", "search")
                          \/ Is(log[r][i - 1], "raise", "search")
                       /\ Len(log[r]) <= i + 1
                       /\ Len(log[r]) = i + 1 => log[r][i + 1].comp = "responder"

C11_Witness ==
    \E r \in Runs :
        /\ Len(log[r]) = 6
        /\ Is(log[r][3], "call", "search")
        /\ Is(log[r][4], "return", "search")
        /\ Is(log[r][5], "call", "responder")
        /\ Is(log[r][6], "return", "responder")
        /\ wf[r].pc = "done"

(* C13: in one run the search provider is invoked at most once and the
   language model at most twice, once to classify and once to respond;
   nothing is retried. *)
Calls(r, comp) == {i \in Idx(r) : Is(log[r][i], "call", comp)}

C13_CallBudget ==
    \A r \in Runs :
        /\ Cardinality(Calls(r, "search")) <= 1
        /\ Cardinality(Calls(r, "classifier")) <= 1
        /\ Cardinality(Calls(r, "responder")) <= 1
        /\ Cardinality(Calls(r, "classifier") \cup Calls(r, "responder")) <= 2

C13_Witness ==
    \E r \in Runs :
        /\ Cardinality(Calls(r, "search")) = 1
        /\ Cardinality(Calls(r, "classifier") \cup Calls(r, "responder")) = 2
        /\ Happened(r, "raise", "search")
        /\ wf[r].pc = "done"

(* C12: provided every component call returns or raises, every invocation
   of chatbot_response ends, in END or in the error result, and the graph
   has no cycle: no node runs twice in a run. *)
Started(r) == wf[r].pc /= "off"

NoRevisit ==
    \A r \in Runs : \A i, j \in Idx(r) :
        (log[r][i].kind = "call" /\ log[r][j].kind = "call"
            /\ log[r][i].comp = log[r][j].comp) => i = j

C12_Terminates ==
    /\ []NoRevisit
    /\ \A r \in SingleRun : Started(r) ~> (wf[r].pc = "done")

C12_Witness ==
    \E r \in Runs :
        /\ wf[r].pc = "done"
        /\ wf[r].outcome.kind = "returned"
        /\ Len(log[r]) = 6

(* C14: within a run messages is append-only: every step keeps the entries
   already there, in order, so after respond the state's messages are the
   user's message followed by the AI message. *)
C14_AppendOnly ==
    \A r \in Runs :
        /\ Len(log[r]) >= 1 => wf[r].state.messages[1] = HumanMessage(UserText(r))
        /\ \A i \in Idx(r) :
              Is(log[r][i], "return", "responder")
              => wf[r].state.messages = <<HumanMessage(UserText(r)), log[r][i].val>>

(* C15: search_results is non-empty only if the classifier returned
   needs_search=true in this run, and it is empty from the initial state
   until the search step has run. *)
Searched(r) == Happened(r, "return", "search") \/ Happened(r, "raise", "search")

C15_ResultsOnlyAfterSearch ==
    \A r \in Runs :
        /\ wf[r].state.search_results /= ""
              => /\ wf[r].state.needs_search
                 /\ Is(log[r][2], "return", "classifier")
                 /\ log[r][2].val.needs_search
        /\ ~Searched(r) => wf[r].state.search_results = ""

C15_Witness ==
    \E r \in Runs :
        /\ wf[r].state.search_results = "{'results': ['h']}"
        /\ wf[r].state.needs_search
        /\ wf[r].pc = "done"

(* C16: needs_search starts false and only classify decides it: once classify
   has merged its output, search and respond change neither needs_search
   nor search_query, and the search step changes search_results only. *)
C16_Flags ==
    \A r \in Runs :
        IF Happened(r, "return", "classifier")
        THEN /\ wf[r].state.needs_search = log[r][2].val.needs_search
             /\ wf[r].state.search_query =
                   (IF log[r][2].val.search_query /= ""
                    THEN log[r][2].val.search_query ELSE UserText(r))
        ELSE /\ wf[r].state.needs_search = FALSE
             /\ wf[r].state.search_query = ""

C16_SearchFrame ==
    \A r \in Runs :
        wf[r].pc \in {"search", "search_wait"}
        => /\ wf'[r].state.messages = wf[r].state.messages
           /\ wf'[r].state.needs_search = wf[r].state.needs_search
           /\ wf'[r].state.search_query = wf[r].state.search_query

C16_OnlyClassifySetsFlags == []C16_Flags /\ [][C16_SearchFrame]_vars

C16_Witness ==
    \E r \in Runs :
        /\ Searched(r)
        /\ Happened(r, "return", "responder")
        /\ wf[r].state.needs_search
        /\ wf[r].state.search_query = "news"
        /\ wf[r].pc = "done"

(* C17: the search-context system message is built for the responder's
   model call only: it is never in the state's messages, at no point of
   the run, the final state included. *)
C17_ContextNotPersisted ==
    \A r \in Runs : \A k \in 1..Len(wf[r].state.messages) :
        /\ wf[r].state.messages[k].type /= "SystemMessage"
        /\ ~Contains(wf[r].state.messages[k].content, "SEARCH RESULTS:")

C17_Witness ==
    \E r \in Runs : \E i \in Idx(r) :
        /\ Is(log[r][i], "call", "responder")
        /\ Len(log[r][i].val) = 2
        /\ log[r][i].val[1].type = "SystemMessage"
        /\ Happened(r, "return", "responder")
        /\ wf[r].pc = "done"

(* C18: when the responder's model call returns something that is not a
   text-bearing AI message, the run's outcome is the fallback literal
   "AI: No response generated." and never the value itself. *)
C18_Fallback ==
    \A r \in Runs : \A i \in Idx(r) :
        (/\ Is(log[r][i], "return", "responder")
         /\ ~(log[r][i].val.type = "AIMessage" /\ IsText(log[r][i].val.content))
         /\ wf[r].pc = "done")
        => wf[r].outcome = Returned("AI: No response generated.")

(* C20: a classifier or responder failure inside the workflow is never
   reported as a server error: run_script answers such a POST with status
   200 and an output beginning "An error occurred:"; status 500 is used
   only when an exception escapes chatbot_response or the import of main.py
   fails. *)
Failed(r) == Happened(r, "raise", "classifier") \/ Happened(r, "raise", "responder")

\* the claim as it was made
C20_FailureIs200 ==
    \A r \in Runs :
        /\ (gw[r].pc = "sent" /\ Failed(r))
              => /\ gw[r].status = 200
                 /\ gw[r].key = "output"
                 /\ StartsWith(gw[r].text, "An error occurred:")
        /\ (gw[r].pc = "sent" /\ gw[r].status = 500)
              => wf[r].outcome.kind = "raised" \/ wf[r].pc = "off"

\* amended: status 200 with the error string, or 504 when the gateway's wait
\* had expired before the failure; never 500
C20_Answered ==
    \A r \in Runs :
        /\ (gw[r].pc = "sent" /\ Failed(r))
              => /\ gw[r].status \in {200, 504}
                 /\ gw[r].status = 200
                       => /\ gw[r].key = "output"
                          /\ StartsWith(gw[r].text, "An error occurred:")
                          /\ gw[r].text = wf[r].outcome.value
        /\ (gw[r].pc = "sent" /\ gw[r].status = 500)
              => wf[r].outcome.kind = "raised" \/ wf[r].pc = "off"

C20_AfterFailure ==
    \A r \in Runs :
        (gw[r].pc = "result" /\ gw'[r].pc /= "result" /\ Failed(r))
        => gw'[r].status = 200

C20_FailureNever500 == []C20_Answered /\ [][C20_AfterFailure]_vars

C20_Witness ==
    \E r \in Runs :
        /\ Happened(r, "raise", "responder")
        /\ gw[r].pc = "sent"
        /\ gw[r].status = 200
        /\ gw[r].text = "An error occurred: quota"

(* C19: workflow invocations share no mutable state: each run starts from a
   freshly built state holding the user's message only, and for two runs
   whose steps interleave each run's state is read and written by that run
   alone, so that its state and result are what its own input and the
   answers to its own calls make them. *)
ApplyEvent(st, ev) ==
    IF Is(ev, "return", "classifier")
    THEN [st EXCEPT !.needs_search = ev.val.needs_search,
                    !.search_query = IF ev.val.search_query /= ""
                                     THEN ev.val.search_query
                                     ELSE st.messages[1].content]
    ELSE IF Is(ev, "return", "search")
    THEN [st EXCEPT !.search_results = PyStr(ev.val)]
    ELSE IF Is(ev, "raise", "search")
    THEN [st EXCEPT !.search_results = "Search error: " \o ev.val]
    ELSE IF Is(ev, "return", "responder")
    THEN [st EXCEPT !.messages = <<ev.val>>]
    ELSE st

RECURSIVE AloneState(_, _)
AloneState(u, evs) ==
    IF evs = <<>>
    THEN [messages |-> <<HumanMessage(u)>>, search_results |-> "",
          needs_search |-> FALSE, search_query |-> ""]
    ELSE ApplyEvent(AloneState(u, SubSeq(evs, 1, Len(evs) - 1)), evs[Len(evs)])

AloneResult(evs) ==
    LET last == evs[Len(evs)]
    IN  IF last.kind = "raise"
        THEN "An error occurred: " \o last.val
        ELSE IF last.val.type = "AIMessage"
        THEN last.val.content
        ELSE "AI: No response generated."

C19_OwnState ==
    \A r \in Runs :
        wf[r].pc \notin {"off", "create_app"} /\ wf[r].outcome.kind /= "raised"
        => /\ wf[r].user_input = UserText(r)
           /\ wf[r].state = AloneState(UserText(r), log[r])
           /\ Len(log[r]) >= 1
                 => log[r][1].val = <<classification_prompt, HumanMessage(UserText(r))>>
           /\ wf[r].pc = "done"
                 => wf[r].outcome = Returned(AloneResult(log[r]))

C19_OneRunPerStep ==
    \A r, q \in Runs :
        (r /= q /\ (wf'[r] /= wf[r] \/ log'[r] /= log[r] \/ gw'[r] /= gw[r]))
        => wf'[q] = wf[q] /\ log'[q] = log[q] /\ gw'[q] = gw[q]

C19_NoSharedState == []C19_OwnState /\ [][C19_OneRunPerStep]_vars

C19_Witness ==
    /\ wf["r1"].pc = "respond_wait"
    /\ wf["r2"].pc = "search_wait"
    /\ UserText("r1") = "2+2?"
    /\ UserText("r2") = ""
    /\ ~wf["r1"].state.needs_search
    /\ wf["r2"].state.search_query = "news"

=============================================================================
